---- MODULE Spec2Model ----
(***************************************************************************)
(* Model of the service-availability resolution                            *)
(* (mcp_atlassian/utils/environment.py) and of the Zephyr tool set         *)
(* (mcp_atlassian/servers/zephyr.py).                                      *)
(*                                                                         *)
(* Strings are sequences of tokens (single characters for the values that  *)
(* the code lower-cases, host labels for URLs, words for messages), so     *)
(* that lower-casing, suffix tests, concatenation and containment are      *)
(* computed and not assumed.                                               *)
(***************************************************************************)
EXTENDS Naturals, Sequences, FiniteSets, TLC

VARIABLES
    env,        \* os.environ
    services,   \* the map returned by get_available_services
    envlog,     \* the records logged by get_available_services
    read_only,  \* the process is read-only (the Write-Access Flag is false)
    inv         \* the tool invocations in flight, by slot

vars == <<env, services, envlog, read_only, inv>>

----------------------------------------------------------------------------
(* The process environment: os.environ.                                    *)

\* A variable that is not set: os.getenv returns None.
None == [set |-> FALSE, str |-> <<>>]

\* A variable set to the string s.
Str(s) == [set |-> TRUE, str |-> s]

\* Python truthiness of an Optional[str]: None and "" are falsy.
Truthy(v) == v.set /\ v.str # <<>>

\* os.getenv(name)
getenv(e, name) == e[name]

\* os.getenv(name, default)
getenv_default(e, name, default) == IF e[name].set THEN e[name].str ELSE default

\* str.lower() on one character (the letters the flag values use).
LowerChar(c) ==
    CASE c = "T" -> "t" [] c = "R" -> "r" [] c = "U" -> "u" [] c = "E" -> "e"
      [] c = "Y" -> "y" [] c = "S" -> "s" [] c = "N" -> "n" [] c = "O" -> "o"
      [] c = "F" -> "f" [] c = "A" -> "a" [] c = "L" -> "l"
      [] OTHER -> c

\* Mutant of Lower: the comparison is made case-sensitive.
Lower_Identity(s) == s

\* str.lower()
Lower(s) == [i \in 1..Len(s) |-> LowerChar(s[i])]

\* Mutant of OAuthEnableValues: "yes" is not accepted.
OAuthEnableValues_NoYes == {<<"t","r","u","e">>, <<"1">>}

\* The tuple ("true", "1", "yes") of environment.py lines 62 and 115.
OAuthEnableValues == {<<"t","r","u","e">>, <<"1">>, <<"y","e","s">>}

\* Host names are sequences of labels; the cloud-hosting suffixes.
CloudSuffixes == {<<"atlassian", "net">>, <<"jira", "com">>}

\* utils/urls.py is_atlassian_cloud_url: the host ends with a cloud suffix.
is_atlassian_cloud_url(url) ==
    \E suf \in CloudSuffixes :
        /\ Len(url) > Len(suf)
        /\ SubSeq(url, Len(url) - Len(suf) + 1, Len(url)) = suf

\* Python all([...]) over getenv results.
all(vals) == \A v \in vals : Truthy(v)

----------------------------------------------------------------------------
(* Log records of logging.getLogger("mcp-atlassian.utils.environment").    *)

Info(msg) == [level |-> "INFO", msg |-> msg]
Warning(msg) == [level |-> "WARNING", msg |-> msg]

MsgOAuthClient(svc) == <<"Using ", svc, " OAuth 2.0 (3LO) authentication (Cloud-only features)">>
MsgOAuthToken(svc) == <<"Using ", svc, " OAuth 2.0 (3LO) authentication (Cloud-only features) ", "with provided access token">>
MsgCloudBasic(svc) == <<"Using ", svc, " Cloud Basic Authentication (API Token)">>
MsgServer(svc) == <<"Using ", svc, " Server/Data Center authentication (PAT or Basic Auth)">>
MsgOAuthHeader(svc) == <<"Using ", svc, " minimal OAuth configuration - expecting user-provided tokens via headers">>
MsgNotConfigured(svc) == <<svc, " is not configured or required environment variables are missing.">>
MsgZephyrBearer == <<"Using Zephyr test management Bearer token authentication">>
MsgZephyrMissingUrl == <<"Zephyr API token found but ZEPHYR_BASE_URL is missing - Zephyr service will not be available">>
MsgZephyrMissingToken == <<"Zephyr base URL found but ZEPHYR_API_TOKEN is missing - Zephyr service will not be available">>
MsgZephyrNotConfigured == <<"Zephyr is not configured or required environment variable (ZEPHYR_API_TOKEN) is missing.">>

----------------------------------------------------------------------------
(* get_available_services: the three resolutions, in the code's order.     *)

\* Lines 19-29: all five OAuth client fields.
ConfluenceOAuthClient(e) ==
    all({getenv(e, "ATLASSIAN_OAUTH_CLIENT_ID"),
         getenv(e, "ATLASSIAN_OAUTH_CLIENT_SECRET"),
         getenv(e, "ATLASSIAN_OAUTH_REDIRECT_URI"),
         getenv(e, "ATLASSIAN_OAUTH_SCOPE"),
         getenv(e, "ATLASSIAN_OAUTH_CLOUD_ID")})

\* Lines 34-39: provided access token and cloud id.
ConfluenceOAuthToken(e) ==
    all({getenv(e, "ATLASSIAN_OAUTH_ACCESS_TOKEN"),
         getenv(e, "ATLASSIAN_OAUTH_CLOUD_ID")})

\* Mutant of ConfluenceCloudBasic: a PAT alone is accepted for a cloud URL.
ConfluenceCloudBasic_AcceptsPat(e) ==
    \/ Truthy(getenv(e, "CONFLUENCE_PERSONAL_TOKEN"))
    \/ all({getenv(e, "CONFLUENCE_USERNAME"), getenv(e, "CONFLUENCE_API_TOKEN")})

\* Lines 46-51: cloud, username and API token.
ConfluenceCloudBasic(e) ==
    all({getenv(e, "CONFLUENCE_USERNAME"), getenv(e, "CONFLUENCE_API_TOKEN")})

\* Lines 55-57: server / data center, PAT or username and API token.
ConfluenceServerAuth(e) ==
    \/ Truthy(getenv(e, "CONFLUENCE_PERSONAL_TOKEN"))
    \/ (Truthy(getenv(e, "CONFLUENCE_USERNAME")) /\ Truthy(getenv(e, "CONFLUENCE_API_TOKEN")))

\* Lines 13-66: confluence_is_setup and the lines logged on the way.
ResolveConfluence(e) ==
    LET confluence_url == getenv(e, "CONFLUENCE_URL") IN
    IF Truthy(confluence_url) THEN
        LET is_cloud == is_atlassian_cloud_url(confluence_url.str) IN
        IF ConfluenceOAuthClient(e) THEN
            [setup |-> TRUE, log |-> <<Info(MsgOAuthClient("Confluence"))>>]
        ELSE IF ConfluenceOAuthToken(e) THEN
            [setup |-> TRUE, log |-> <<Info(MsgOAuthToken("Confluence"))>>]
        ELSE IF is_cloud THEN
            IF ConfluenceCloudBasic(e)
            THEN [setup |-> TRUE, log |-> <<Info(MsgCloudBasic("Confluence"))>>]
            ELSE [setup |-> FALSE, log |-> <<>>]
        ELSE
            IF ConfluenceServerAuth(e)
            THEN [setup |-> TRUE, log |-> <<Info(MsgServer("Confluence"))>>]
            ELSE [setup |-> FALSE, log |-> <<>>]
    ELSE IF Lower(getenv_default(e, "ATLASSIAN_OAUTH_ENABLE", <<>>)) \in OAuthEnableValues THEN
        [setup |-> TRUE, log |-> <<Info(MsgOAuthHeader("Confluence"))>>]
    ELSE [setup |-> FALSE, log |-> <<>>]

\* Lines 74-82.
JiraOAuthClient(e) ==
    all({getenv(e, "ATLASSIAN_OAUTH_CLIENT_ID"),
         getenv(e, "ATLASSIAN_OAUTH_CLIENT_SECRET"),
         getenv(e, "ATLASSIAN_OAUTH_REDIRECT_URI"),
         getenv(e, "ATLASSIAN_OAUTH_SCOPE"),
         getenv(e, "ATLASSIAN_OAUTH_CLOUD_ID")})

\* Mutant of JiraOAuthToken: the client id is read where the cloud id is meant.
JiraOAuthToken_ReadsClientId(e) ==
    all({getenv(e, "ATLASSIAN_OAUTH_ACCESS_TOKEN"),
         getenv(e, "ATLASSIAN_OAUTH_CLIENT_ID")})

\* Lines 87-92.
JiraOAuthToken(e) ==
    all({getenv(e, "ATLASSIAN_OAUTH_ACCESS_TOKEN"),
         getenv(e, "ATLASSIAN_OAUTH_CLOUD_ID")})

\* Lines 99-104.
JiraCloudBasic(e) ==
    all({getenv(e, "JIRA_USERNAME"), getenv(e, "JIRA_API_TOKEN")})

\* Lines 108-110.
JiraServerAuth(e) ==
    \/ Truthy(getenv(e, "JIRA_PERSONAL_TOKEN"))
    \/ (Truthy(getenv(e, "JIRA_USERNAME")) /\ Truthy(getenv(e, "JIRA_API_TOKEN")))

\* Mutant of ResolveJira: the provided-token test is an `if`, not an `elif`,
\* so both OAuth branches run when both match.
ResolveJira_IfNotElif(e) ==
    LET jira_url == getenv(e, "JIRA_URL") IN
    IF Truthy(jira_url) THEN
        LET is_cloud == is_atlassian_cloud_url(jira_url.str)
            first == IF JiraOAuthClient(e) THEN <<Info(MsgOAuthClient("Jira"))>> ELSE <<>>
        IN
        IF JiraOAuthToken(e) THEN
            [setup |-> TRUE, log |-> first \o <<Info(MsgOAuthToken("Jira"))>>]
        ELSE IF JiraOAuthClient(e) THEN
            [setup |-> TRUE, log |-> first]
        ELSE IF is_cloud THEN
            IF JiraCloudBasic(e)
            THEN [setup |-> TRUE, log |-> <<Info(MsgCloudBasic("Jira"))>>]
            ELSE [setup |-> FALSE, log |-> <<>>]
        ELSE
            IF JiraServerAuth(e)
            THEN [setup |-> TRUE, log |-> <<Info(MsgServer("Jira"))>>]
            ELSE [setup |-> FALSE, log |-> <<>>]
    ELSE IF Lower(getenv_default(e, "ATLASSIAN_OAUTH_ENABLE", <<>>)) \in OAuthEnableValues THEN
        [setup |-> TRUE, log |-> <<Info(MsgOAuthHeader("Jira"))>>]
    ELSE [setup |-> FALSE, log |-> <<>>]

\* Lines 68-119: jira_is_setup and the lines logged on the way.
ResolveJira(e) ==
    LET jira_url == getenv(e, "JIRA_URL") IN
    IF Truthy(jira_url) THEN
        LET is_cloud == is_atlassian_cloud_url(jira_url.str) IN
        IF JiraOAuthClient(e) THEN
            [setup |-> TRUE, log |-> <<Info(MsgOAuthClient("Jira"))>>]
        ELSE IF JiraOAuthToken(e) THEN
            [setup |-> TRUE, log |-> <<Info(MsgOAuthToken("Jira"))>>]
        ELSE IF is_cloud THEN
            IF JiraCloudBasic(e)
            THEN [setup |-> TRUE, log |-> <<Info(MsgCloudBasic("Jira"))>>]
            ELSE [setup |-> FALSE, log |-> <<>>]
        ELSE
            IF JiraServerAuth(e)
            THEN [setup |-> TRUE, log |-> <<Info(MsgServer("Jira"))>>]
            ELSE [setup |-> FALSE, log |-> <<>>]
    ELSE IF Lower(getenv_default(e, "ATLASSIAN_OAUTH_ENABLE", <<>>)) \in OAuthEnableValues THEN
        [setup |-> TRUE, log |-> <<Info(MsgOAuthHeader("Jira"))>>]
    ELSE [setup |-> FALSE, log |-> <<>>]

\* Mutant of ResolveZephyr: the first test joins the two variables with `or`.
ResolveZephyr_Or(e) ==
    LET token == getenv(e, "ZEPHYR_API_TOKEN")
        url == getenv(e, "ZEPHYR_BASE_URL") IN
    IF Truthy(token) \/ Truthy(url) THEN
        [setup |-> TRUE, log |-> <<Info(MsgZephyrBearer)>>]
    ELSE [setup |-> FALSE, log |-> <<>>]

\* Lines 121-129: zephyr_is_setup and the lines logged on the way.
ResolveZephyr(e) ==
    LET token == getenv(e, "ZEPHYR_API_TOKEN")
        url == getenv(e, "ZEPHYR_BASE_URL") IN
    IF Truthy(token) /\ Truthy(url) THEN
        [setup |-> TRUE, log |-> <<Info(MsgZephyrBearer)>>]
    ELSE IF Truthy(token) /\ ~Truthy(url) THEN
        [setup |-> FALSE, log |-> <<Warning(MsgZephyrMissingUrl)>>]
    ELSE IF Truthy(url) /\ ~Truthy(token) THEN
        [setup |-> FALSE, log |-> <<Warning(MsgZephyrMissingToken)>>]
    ELSE [setup |-> FALSE, log |-> <<>>]

\* Lines 131-142: the closing "not configured" lines.
NotConfiguredLines(c, j, z) ==
    (IF ~c THEN <<Info(MsgNotConfigured("Confluence"))>> ELSE <<>>)
    \o (IF ~j THEN <<Info(MsgNotConfigured("Jira"))>> ELSE <<>>)
    \o (IF ~z THEN <<Info(MsgZephyrNotConfigured)>> ELSE <<>>)

----------------------------------------------------------------------------
(* The Zephyr tool set: servers/zephyr.py.                                 *)

\* Bounds of the explored inputs.
MaxInFlight == 1
MaxSteps == 2
MaxResults == 2

Slots == 1..MaxInFlight

\* The tools registered on zephyr_mcp, in file order.
Tools ==
    {"get_testcase", "create_testcase", "update_testcase", "delete_testcase",
     "search_testcases", "get_testplan", "create_testplan", "search_testplans",
     "get_testrun", "create_testrun", "search_testruns", "create_testresult",
     "get_testcase_latest_result", "get_testrun_results", "get_test_steps",
     "add_test_step", "add_multiple_test_steps"}

\* Mutant of WriteTools: the decorator is missing on add_multiple_test_steps.
WriteTools_OneUndecorated ==
    {"create_testcase", "update_testcase", "delete_testcase", "create_testplan",
     "create_testrun", "create_testresult", "add_test_step"}

\* The tools defined under @check_write_access.
WriteTools ==
    {"create_testcase", "update_testcase", "delete_testcase", "create_testplan",
     "create_testrun", "create_testresult", "add_test_step",
     "add_multiple_test_steps"}

\* The tools whose first argument is the key of an entity (test_case_key,
\* test_plan_key, test_run_key, issue_id).
KeyedTools ==
    {"get_testcase", "update_testcase", "delete_testcase", "get_testplan",
     "get_testrun", "get_testcase_latest_result", "get_testrun_results",
     "get_test_steps", "add_test_step", "add_multiple_test_steps"}

\* The tools that json.loads() their data argument.
JsonTools ==
    {"create_testcase", "update_testcase", "create_testplan", "create_testrun",
     "create_testresult"}

\* The tools that await the backend call.
AwaitingTools == {"get_test_steps", "add_test_step", "add_multiple_test_steps"}

Keys == {"JQA-T1"}
NoKey == "-"
ProjectId == "10000"

\* Python None and a simplified dict, as values of a response.
PyNone == "None"
Dict == "dict"

\* str.lower() on the words of a message.
lower_words(msg) == [i \in 1..Len(msg) |-> IF msg[i] = "Not Found" THEN "not found" ELSE msg[i]]

\* `word in text`
Contains(text, word) == \E i \in 1..Len(text) : text[i] = word

\* The exception classes and their bases.
Bases(kind) ==
    CASE kind = "MCPAtlassianNotFoundError" -> {"MCPAtlassianNotFoundError", "Exception"}
      [] kind = "MCPAtlassianAuthenticationError" -> {"MCPAtlassianAuthenticationError", "Exception"}
      [] kind = "JSONDecodeError" -> {"JSONDecodeError", "ValueError", "Exception"}
      [] kind = "ValidationError" -> {"ValidationError", "ValueError", "Exception"}
      [] kind = "ValueError" -> {"ValueError", "Exception"}
      [] kind = "AttributeError" -> {"AttributeError", "Exception"}
      [] kind = "TypeError" -> {"TypeError", "Exception"}
      [] OTHER -> {"Exception"}

isinstance(f, cls) == cls \in Bases(f.kind)

\* str(e)
str(f) == f.msg

Fault(kind, msg) == [kind |-> kind, msg |-> msg]

\* Mutant of except_Exception: the broad clause catches ValueError only.
except_ValueError(f) == isinstance(f, "ValueError")

\* `except Exception as e`
except_Exception(f) == isinstance(f, "Exception")

\* The texts a backend fault may carry: one that names the entity, one that
\* does not, and none.
NamingText(key) == <<"Entity ", key, " ", "Not Found">>
OtherText == <<"404 Client Error: upstream detail">>

\* What the backend client can raise.
BackendFaults(key) ==
    {Fault("MCPAtlassianNotFoundError", NamingText(key)),
     Fault("MCPAtlassianNotFoundError", OtherText),
     Fault("MCPAtlassianAuthenticationError", OtherText),
     Fault("ValueError", NamingText(key)),
     Fault("ValueError", OtherText),
     Fault("Exception", OtherText),
     Fault("Exception", <<>>)}

\* What get_zephyr_fetcher can raise.
FetcherFaults ==
    {Fault("ValueError", <<"Zephyr client is not configured or available">>),
     Fault("MCPAtlassianAuthenticationError", <<"Invalid Zephyr token">>)}

\* Outcomes of an awaited or called collaborator.
Returns(none, n) == [kind |-> "return", none |-> none, n |-> n]
Raises(f) == [kind |-> "raise", fault |-> f, none |-> FALSE, n |-> 0]

FetcherOutcomes == {Returns(FALSE, 0)} \cup {Raises(f) : f \in FetcherFaults}

\* The tools whose backend call returns a list.
ListTools ==
    {"search_testcases", "search_testplans", "search_testruns",
     "get_testrun_results", "add_multiple_test_steps"}

\* The backend returns an entity, nothing (None), or a list of n entities
\* (for add_multiple_test_steps: of at most `requested` created steps), or
\* raises.
BackendOutcomes(tool, key, requested) ==
    {Returns(FALSE, 0), Returns(TRUE, 0)}
    \cup (IF tool = "add_multiple_test_steps"
          THEN {Returns(FALSE, n) : n \in 0..requested}
          ELSE IF tool \in ListTools THEN {Returns(FALSE, n) : n \in 0..MaxResults}
          ELSE {})
    \cup {Raises(f) : f \in BackendFaults(key)}

\* The data argument: a JSON text that is malformed, an object, or an array.
NoData == [json |-> "none", items |-> <<>>]
Json(kind, items) == [json |-> kind, items |-> items]

\* Elements of a steps array: an object with a step, an object without one,
\* and a value that is no object.
StepObject == [type |-> "dict", has_step |-> TRUE, step |-> <<"Login to system">>]
NoStepObject == [type |-> "dict", has_step |-> FALSE, step |-> <<>>]
NotAnObject == [type |-> "str", has_step |-> FALSE, step |-> <<>>]
Elements == {StepObject, NoStepObject, NotAnObject}

StepsInputs ==
    {Json("malformed", <<>>), Json("object", <<>>)}
    \cup {Json("array", s) : s \in UNION {[1..n -> Elements] : n \in 0..MaxSteps}}

DataFor(tool) ==
    IF tool \in JsonTools THEN {Json("malformed", <<>>), Json("object", <<>>)}
    ELSE IF tool = "add_multiple_test_steps" THEN StepsInputs
    ELSE {NoData}

\* The step argument of add_test_step: a description, or an empty one.
StepsFor(tool) ==
    IF tool = "add_test_step" THEN {<<"Login to system">>, <<>>} ELSE {<<>>}

ArgsFor(tool) ==
    {[key |-> k, data |-> d, step |-> s] :
        k \in (IF tool \in KeyedTools THEN Keys ELSE {NoKey}),
        d \in DataFor(tool), s \in StepsFor(tool)}

----------------------------------------------------------------------------
(* Log records of the tools' logger.                                       *)

LOG_ERROR == 40
LOG_WARNING == 30

\* logger.exception(text): error severity, with the fault and its traceback.
LogException(text, f) == [level |-> LOG_ERROR, text |-> text, exc_info |-> <<f>>]

\* logger.log(level, text) and logger.warning(text)
LogAt(level, text) == [level |-> level, text |-> text, exc_info |-> <<>>]

----------------------------------------------------------------------------
(* The outcome of a try block and of a call.                               *)

\* The try block ended normally with response_data = resp.
Value(resp, calls) == [raised |-> FALSE, response |-> resp, calls |-> calls]
\* The try block raised f.
Raised(f, calls) == [raised |-> TRUE, fault |-> f, calls |-> calls]

\* The call returned json.dumps(resp).
Returned(resp, calls, log) ==
    [raised |-> FALSE, response |-> resp, calls |-> calls, log |-> log]
\* The call let f through to its caller.
Propagated(f, calls, log) ==
    [raised |-> TRUE, fault |-> f, calls |-> calls, log |-> log]

\* json.loads(data) of the tools that take one JSON document.
json_loads_fault == Fault("JSONDecodeError", <<"Expecting value: line 1 column 1 (char 0)">>)

\* What using a returned None raises: None.to_simplified_dict(), and
\* iterating None.
NoneAttr == <<Fault("AttributeError", <<"'NoneType' object has no attribute 'to_simplified_dict'">>)>>
NoneIter == <<Fault("TypeError", <<"'NoneType' object is not iterable">>)>>
\* The returned value is not dereferenced.
NotUsed == <<>>

\* Mutant of TryCall: a backend call that raised is made a second time.
TryCall_Retry(fo, bo, use, resp) ==
    IF fo.kind = "raise" THEN Raised(fo.fault, 0)
    ELSE IF bo.kind = "raise" THEN Raised(bo.fault, 2)
    ELSE IF bo.none /\ use # <<>> THEN Raised(use[1], 1)
    ELSE Value(resp, 1)

\* zephyr = await get_zephyr_fetcher(ctx); the backend call; the use of its
\* value (`use` is what a None raises there, if anything).
TryCall(fo, bo, use, resp) ==
    IF fo.kind = "raise" THEN Raised(fo.fault, 0)
    ELSE IF bo.kind = "raise" THEN Raised(bo.fault, 1)
    ELSE IF bo.none /\ use # <<>> THEN Raised(use[1], 1)
    ELSE Value(resp, 1)

\* zephyr = await get_zephyr_fetcher(ctx); data = json.loads(...); the call.
TryParseCall(a, fo, bo, resp) ==
    IF fo.kind = "raise" THEN Raised(fo.fault, 0)
    ELSE IF a.data.json = "malformed" THEN Raised(json_loads_fault, 0)
    ELSE IF bo.kind = "raise" THEN Raised(bo.fault, 1)
    ELSE Value(resp, 1)

\* [x.to_simplified_dict() for x in xs]
simplified_list(bo) == [i \in 1..bo.n |-> Dict]

\* The handlers `except MCPAtlassianNotFoundError` / `except Exception`.
HandleNotFoundThenAny(t, notfound, failed, logtext) ==
    IF ~t.raised THEN Returned(t.response, t.calls, <<>>)
    ELSE IF isinstance(t.fault, "MCPAtlassianNotFoundError") THEN
        Returned([success |-> FALSE, error |-> <<notfound>> \o str(t.fault)], t.calls, <<>>)
    ELSE IF except_Exception(t.fault) THEN
        Returned([success |-> FALSE, error |-> <<failed>> \o str(t.fault)], t.calls,
                 <<LogException(logtext, t.fault)>>)
    ELSE Propagated(t.fault, t.calls, <<>>)

\* The handler `except Exception` alone.
HandleAny(t, failed, logtext) ==
    IF ~t.raised THEN Returned(t.response, t.calls, <<>>)
    ELSE IF except_Exception(t.fault) THEN
        Returned([success |-> FALSE, error |-> <<failed>> \o str(t.fault)], t.calls,
                 <<LogException(logtext, t.fault)>>)
    ELSE Propagated(t.fault, t.calls, <<>>)

----------------------------------------------------------------------------
(* The tool bodies: a = the arguments, fo = what get_zephyr_fetcher does,  *)
(* bo = what the backend call does if it is reached.                       *)

\* Lines 47-57.
get_testcase(a, fo, bo) ==
    HandleNotFoundThenAny(
        TryCall(fo, bo, NoneAttr, [success |-> TRUE, test_case |-> Dict]),
        "Test case not found: ", "Failed to get test case: ",
        <<"Error getting test case ", a.key>>)

\* Lines 78-87.
create_testcase(a, fo, bo) ==
    HandleAny(
        TryParseCall(a, fo, bo, [success |-> TRUE, test_case_key |-> "key"]),
        "Failed to create test case: ", <<"Error creating test case">>)

\* Lines 113-124.
update_testcase(a, fo, bo) ==
    HandleNotFoundThenAny(
        TryParseCall(a, fo, bo,
            [success |-> TRUE, message |-> <<"Test case ", a.key, " updated">>]),
        "Test case not found: ", "Failed to update test case: ",
        <<"Error updating test case ", a.key>>)

\* Lines 145-155.
delete_testcase(a, fo, bo) ==
    HandleNotFoundThenAny(
        TryCall(fo, bo, NotUsed,
            [success |-> TRUE, message |-> <<"Test case ", a.key, " deleted">>]),
        "Test case not found: ", "Failed to delete test case: ",
        <<"Error deleting test case ", a.key>>)

\* Lines 190-199.
search_testcases(a, fo, bo) ==
    HandleAny(
        TryCall(fo, bo, NoneIter,
            [success |-> TRUE, test_cases |-> simplified_list(bo),
                         count |-> Len(simplified_list(bo))]),
        "Failed to search test cases: ", <<"Error searching test cases">>)

\* Lines 226-236.
get_testplan(a, fo, bo) ==
    HandleNotFoundThenAny(
        TryCall(fo, bo, NoneAttr, [success |-> TRUE, test_plan |-> Dict]),
        "Test plan not found: ", "Failed to get test plan: ",
        <<"Error getting test plan ", a.key>>)

\* Lines 257-266.
create_testplan(a, fo, bo) ==
    HandleAny(
        TryParseCall(a, fo, bo, [success |-> TRUE, test_plan_key |-> "key"]),
        "Failed to create test plan: ", <<"Error creating test plan">>)

\* Lines 301-310.
search_testplans(a, fo, bo) ==
    HandleAny(
        TryCall(fo, bo, NoneIter,
            [success |-> TRUE, test_plans |-> simplified_list(bo),
                         count |-> Len(simplified_list(bo))]),
        "Failed to search test plans: ", <<"Error searching test plans">>)

\* Lines 337-347.
get_testrun(a, fo, bo) ==
    HandleNotFoundThenAny(
        TryCall(fo, bo, NoneAttr, [success |-> TRUE, test_run |-> Dict]),
        "Test run not found: ", "Failed to get test run: ",
        <<"Error getting test run ", a.key>>)

\* Lines 368-377.
create_testrun(a, fo, bo) ==
    HandleAny(
        TryParseCall(a, fo, bo, [success |-> TRUE, test_run_key |-> "key"]),
        "Failed to create test run: ", <<"Error creating test run">>)

\* Lines 412-421.
search_testruns(a, fo, bo) ==
    HandleAny(
        TryCall(fo, bo, NoneIter,
            [success |-> TRUE, test_runs |-> simplified_list(bo),
                         count |-> Len(simplified_list(bo))]),
        "Failed to search test runs: ", <<"Error searching test runs">>)

\* Lines 444-453.
create_testresult(a, fo, bo) ==
    HandleAny(
        TryParseCall(a, fo, bo, [success |-> TRUE, test_result_id |-> "id"]),
        "Failed to create test result: ", <<"Error creating test result">>)

\* Mutant of get_testcase_latest_result: the empty branch reports failure
\* without an error.
get_testcase_latest_result_EmptyFails(a, fo, bo) ==
    HandleAny(
        TryCall(fo, bo, NotUsed,
            IF ~bo.none
            THEN [success |-> TRUE, test_result |-> Dict]
            ELSE [success |-> FALSE, test_result |-> PyNone,
                  message |-> <<"No results found">>]),
        "Failed to get latest test result: ",
        <<"Error getting latest result for test case ", a.key>>)

\* Lines 473-484: `if test_result:` chooses between the two success shapes.
get_testcase_latest_result(a, fo, bo) ==
    HandleAny(
        TryCall(fo, bo, NotUsed,
            IF ~bo.none
            THEN [success |-> TRUE, test_result |-> Dict]
            ELSE [success |-> TRUE, test_result |-> PyNone,
                  message |-> <<"No results found">>]),
        "Failed to get latest test result: ",
        <<"Error getting latest result for test case ", a.key>>)

\* Lines 504-515.
get_testrun_results(a, fo, bo) ==
    HandleNotFoundThenAny(
        TryCall(fo, bo, NoneIter,
            [success |-> TRUE, test_results |-> simplified_list(bo),
                         count |-> Len(simplified_list(bo))]),
        "Test run not found: ", "Failed to get test run results: ",
        <<"Error getting test results for test run ", a.key>>)

\* The error_result of the three test-step tools (lines 571-576, 671-676,
\* 798-803).
error_result(a, f) ==
    [success |-> FALSE, error |-> str(f), issue_id |-> a.key, project_id |-> ProjectId]

\* Lines 554-581: the handler of get_test_steps.
get_test_steps_except(a, f, calls) ==
    LET notfound == isinstance(f, "ValueError") /\ Contains(lower_words(str(f)), "not found")
        auth == ~notfound /\ isinstance(f, "MCPAtlassianAuthenticationError")
        log_level == IF notfound THEN LOG_WARNING ELSE LOG_ERROR
        error_message ==
            IF notfound THEN str(f)
            ELSE IF auth THEN <<"Authentication/Permission Error: ">> \o str(f)
            ELSE <<"An unexpected error occurred while fetching test steps.">>
        unexpected ==
            IF notfound \/ auth THEN <<>>
            ELSE <<LogException(<<"Unexpected error in get_test_steps for issue '", a.key, "':">>, f)>>
    IN Returned(error_result(a, f), calls,
                unexpected \o <<LogAt(log_level,
                    <<"get_test_steps failed for issue '", a.key, "': ">> \o error_message)>>)

\* Lines 549-583.
get_test_steps(a, fo, bo) ==
    LET t == TryCall(fo, bo, NoneAttr, [success |-> TRUE, test_steps |-> Dict]) IN
    IF ~t.raised THEN Returned(t.response, t.calls, <<>>)
    ELSE IF except_Exception(t.fault) THEN get_test_steps_except(a, t.fault, t.calls)
    ELSE Propagated(t.fault, t.calls, <<>>)

\* models/zephyr.py TestStepRequest: an empty step is refused.
TestStepRequest_refuses(step) == step = <<>>

\* What TestStepRequest raises when it refuses.
TestStepRequest_fault == Fault("ValidationError", <<"1 validation error for TestStepRequest">>)

\* Lines 657-681: the handler of add_test_step.
add_test_step_except(a, f, calls) ==
    LET auth == isinstance(f, "MCPAtlassianAuthenticationError")
        error_message ==
            IF auth THEN <<"Authentication/Permission Error: ">> \o str(f)
            ELSE <<"An unexpected error occurred while adding the test step.">>
        unexpected ==
            IF auth THEN <<>>
            ELSE <<LogException(<<"Unexpected error in add_test_step for issue '", a.key, "':">>, f)>>
    IN Returned(error_result(a, f), calls,
                unexpected \o <<LogAt(LOG_ERROR,
                    <<"add_test_step failed for issue '", a.key, "': ">> \o error_message)>>)

\* Lines 639-683.
add_test_step(a, fo, bo) ==
    LET t == IF fo.kind = "return" /\ TestStepRequest_refuses(a.step)
             THEN Raised(TestStepRequest_fault, 0)
             ELSE TryCall(fo, bo, NoneAttr,
                          [success |-> TRUE, test_step |-> Dict,
                           issue_id |-> a.key, project_id |-> ProjectId]) IN
    IF ~t.raised THEN Returned(t.response, t.calls, <<>>)
    ELSE IF except_Exception(t.fault) THEN add_test_step_except(a, t.fault, t.calls)
    ELSE Propagated(t.fault, t.calls, <<>>)

\* step_data.get("step", "")
dict_get_step(elem) == IF elem.has_step THEN elem.step ELSE <<>>

\* Lines 754-761: what building the request of one element raises, if anything.
ElementFaults(elem) ==
    IF elem.type # "dict"
    THEN {Fault("AttributeError", <<"'str' object has no attribute 'get'">>)}
    ELSE IF TestStepRequest_refuses(dict_get_step(elem))
    THEN {TestStepRequest_fault}
    ELSE {}

\* Mutant of FirstInvalid: the loop reports the last element that raises.
FirstInvalid_Last(items) ==
    IF \E i \in 1..Len(items) : ElementFaults(items[i]) # {}
    THEN (CHOOSE i \in 1..Len(items) :
            /\ ElementFaults(items[i]) # {}
            /\ \A j \in (i + 1)..Len(items) : ElementFaults(items[j]) = {}) - 1
    ELSE Len(items)

\* Lines 753-767: the least index (from 0) whose element raises, or
\* Len(items) when none does (the loop ends).
FirstInvalid(items) ==
    IF \E i \in 1..Len(items) : ElementFaults(items[i]) # {}
    THEN (CHOOSE i \in 1..Len(items) :
            /\ ElementFaults(items[i]) # {}
            /\ \A j \in 1..(i - 1) : ElementFaults(items[j]) = {}) - 1
    ELSE Len(items)

\* Lines 784-808: the handler of add_multiple_test_steps.
add_multiple_test_steps_except(a, f, calls) ==
    LET auth == isinstance(f, "MCPAtlassianAuthenticationError")
        error_message ==
            IF auth THEN <<"Authentication/Permission Error: ">> \o str(f)
            ELSE <<"An unexpected error occurred while adding test steps.">>
        unexpected ==
            IF auth THEN <<>>
            ELSE <<LogException(<<"Unexpected error in add_multiple_test_steps for issue '", a.key, "':">>, f)>>
    IN Returned(error_result(a, f), calls,
                unexpected \o <<LogAt(LOG_ERROR,
                    <<"add_multiple_test_steps failed for issue '", a.key, "': ">> \o error_message)>>)

\* Lines 732-767: the early returns of add_multiple_test_steps, if one is taken.
StepsRejection(a) ==
    IF a.data.json = "malformed" THEN
        <<[success |-> FALSE,
           error |-> <<"Invalid JSON format for steps: ", "Expecting value: line 1 column 1 (char 0)">>,
           issue_id |-> a.key, project_id |-> ProjectId]>>
    ELSE IF a.data.json # "array" THEN
        <<[success |-> FALSE, error |-> <<"Steps must be a JSON array">>,
           issue_id |-> a.key, project_id |-> ProjectId]>>
    ELSE IF FirstInvalid(a.data.items) < Len(a.data.items) THEN
        LET i == FirstInvalid(a.data.items)
            e == CHOOSE f \in ElementFaults(a.data.items[i + 1]) : TRUE IN
        <<[success |-> FALSE,
           error |-> <<"Invalid step data at index ", ToString(i), ": ">> \o str(e),
           issue_id |-> a.key, project_id |-> ProjectId]>>
    ELSE <<>>

\* Mutant of add_multiple_test_steps: fewer created steps than requested is
\* reported as a failure.
add_multiple_test_steps_PartialFails(a, fo, bo) ==
    IF fo.kind = "raise" THEN
        IF except_Exception(fo.fault)
        THEN add_multiple_test_steps_except(a, fo.fault, 0)
        ELSE Propagated(fo.fault, 0, <<>>)
    ELSE IF StepsRejection(a) # <<>> THEN Returned(StepsRejection(a)[1], 0, <<>>)
    ELSE IF bo.kind = "raise" \/ bo.none THEN
        LET f == IF bo.kind = "raise" THEN bo.fault ELSE NoneIter[1] IN
        IF except_Exception(f)
        THEN add_multiple_test_steps_except(a, f, 1)
        ELSE Propagated(f, 1, <<>>)
    ELSE IF Len(simplified_list(bo)) < Len(a.data.items) THEN
        Returned([success |-> FALSE, error |-> <<"Not all test steps were created">>,
                  issue_id |-> a.key, project_id |-> ProjectId], 1, <<>>)
    ELSE
        Returned([success |-> TRUE, test_steps |-> simplified_list(bo),
                  total_requested |-> Len(a.data.items),
                  total_created |-> Len(simplified_list(bo)),
                  issue_id |-> a.key, project_id |-> ProjectId], 1, <<>>)

\* Lines 729-810.  The backend returns bo.n created steps, at most as many as
\* were requested.
add_multiple_test_steps(a, fo, bo) ==
    IF fo.kind = "raise" THEN
        IF except_Exception(fo.fault)
        THEN add_multiple_test_steps_except(a, fo.fault, 0)
        ELSE Propagated(fo.fault, 0, <<>>)
    ELSE IF StepsRejection(a) # <<>> THEN Returned(StepsRejection(a)[1], 0, <<>>)
    ELSE IF bo.kind = "raise" \/ bo.none THEN
        LET f == IF bo.kind = "raise" THEN bo.fault ELSE NoneIter[1] IN
        IF except_Exception(f)
        THEN add_multiple_test_steps_except(a, f, 1)
        ELSE Propagated(f, 1, <<>>)
    ELSE
        Returned([success |-> TRUE, test_steps |-> simplified_list(bo),
                  total_requested |-> Len(a.data.items),
                  total_created |-> Len(simplified_list(bo)),
                  issue_id |-> a.key, project_id |-> ProjectId], 1, <<>>)

\* The body registered under each tool name.
Body(tool, a, fo, bo) ==
    CASE tool = "get_testcase" -> get_testcase(a, fo, bo)
      [] tool = "create_testcase" -> create_testcase(a, fo, bo)
      [] tool = "update_testcase" -> update_testcase(a, fo, bo)
      [] tool = "delete_testcase" -> delete_testcase(a, fo, bo)
      [] tool = "search_testcases" -> search_testcases(a, fo, bo)
      [] tool = "get_testplan" -> get_testplan(a, fo, bo)
      [] tool = "create_testplan" -> create_testplan(a, fo, bo)
      [] tool = "search_testplans" -> search_testplans(a, fo, bo)
      [] tool = "get_testrun" -> get_testrun(a, fo, bo)
      [] tool = "create_testrun" -> create_testrun(a, fo, bo)
      [] tool = "search_testruns" -> search_testruns(a, fo, bo)
      [] tool = "create_testresult" -> create_testresult(a, fo, bo)
      [] tool = "get_testcase_latest_result" -> get_testcase_latest_result(a, fo, bo)
      [] tool = "get_testrun_results" -> get_testrun_results(a, fo, bo)
      [] tool = "get_test_steps" -> get_test_steps(a, fo, bo)
      [] tool = "add_test_step" -> add_test_step(a, fo, bo)
      [] tool = "add_multiple_test_steps" -> add_multiple_test_steps(a, fo, bo)

----------------------------------------------------------------------------
(* The environments and the call of get_available_services.                *)

\* The functions the environment ranges over.
UrlValues == {None, Str(<<"acme", "atlassian", "net">>), Str(<<"jira", "acme", "com">>)}
CredValues == {None, Str(<<"x">>)}
EnableValues ==
    {None, Str(<<"t","r","u","e">>), Str(<<"T","r","u","E">>),
     Str(<<"1">>), Str(<<"Y","e","s">>), Str(<<"f","a","l","s","e">>)}

EnvSpace ==
    [CONFLUENCE_URL : UrlValues, CONFLUENCE_USERNAME : CredValues,
     CONFLUENCE_API_TOKEN : CredValues, CONFLUENCE_PERSONAL_TOKEN : CredValues,
     JIRA_URL : UrlValues, JIRA_USERNAME : CredValues,
     JIRA_API_TOKEN : CredValues, JIRA_PERSONAL_TOKEN : CredValues,
     ATLASSIAN_OAUTH_CLIENT_ID : CredValues, ATLASSIAN_OAUTH_CLIENT_SECRET : CredValues,
     ATLASSIAN_OAUTH_REDIRECT_URI : CredValues, ATLASSIAN_OAUTH_SCOPE : CredValues,
     ATLASSIAN_OAUTH_CLOUD_ID : CredValues, ATLASSIAN_OAUTH_ACCESS_TOKEN : CredValues,
     ATLASSIAN_OAUTH_ENABLE : EnableValues,
     ZEPHYR_API_TOKEN : CredValues, ZEPHYR_BASE_URL : CredValues]

\* The four client-credential fields of the OAuth application.
ClientFields ==
    {"ATLASSIAN_OAUTH_CLIENT_ID", "ATLASSIAN_OAUTH_CLIENT_SECRET",
     "ATLASSIAN_OAUTH_REDIRECT_URI", "ATLASSIAN_OAUTH_SCOPE"}

\* The environments explored: of the four client fields, all are set, exactly
\* one is missing, or none is set; every other variable ranges freely.
Environments ==
    {e \in EnvSpace : Cardinality({f \in ClientFields : ~e[f].set}) \in {0, 1, 4}}

\* Before the call: no map yet.
NotResolved == [resolved |-> FALSE]

\* A slot with no invocation, and a slot with one at position pc.
IdleSlot ==
    [pc |-> "idle", tool |-> "-", args |-> [key |-> NoKey, data |-> NoData, step |-> <<>>],
     calls |-> 0, backend |-> <<>>, out |-> <<>>]
Running(pc, tool, a, calls, backend, out) ==
    [pc |-> pc, tool |-> tool, args |-> a, calls |-> calls, backend |-> backend, out |-> out]

InitEnv ==
    /\ env \in Environments
    /\ services = NotResolved
    /\ envlog = <<>>
    /\ read_only = FALSE
    /\ inv = [i \in Slots |-> IdleSlot]

\* Lines 11-144: one call of get_available_services().
get_available_services ==
    /\ services = NotResolved
    /\ LET c == ResolveConfluence(env)
           j == ResolveJira(env)
           z == ResolveZephyr(env) IN
        /\ envlog' = c.log \o j.log \o z.log \o NotConfiguredLines(c.setup, j.setup, z.setup)
        /\ services' = [resolved |-> TRUE, confluence |-> c.setup,
                        jira |-> j.setup, zephyr |-> z.setup]
    /\ UNCHANGED <<env, read_only, inv>>

NextEnv == get_available_services

SpecEnv == InitEnv /\ [][NextEnv]_vars

----------------------------------------------------------------------------
(* Properties of get_available_services.  The conditions below are stated  *)
(* on the environment itself, not through the operators of the resolution. *)

Present(name) == env[name].set /\ env[name].str # <<>>

Resolved == services.resolved

Logged(msg) == \E i \in 1..Len(envlog) : envlog[i].msg = msg

TimesLogged(msg) == Cardinality({i \in 1..Len(envlog) : envlog[i].msg = msg})

\* The two services resolved by the shared OAuth / basic / PAT rules.
Tracked == {"Confluence", "Jira"}

UrlVar(svc) == IF svc = "Jira" THEN "JIRA_URL" ELSE "CONFLUENCE_URL"
UserVar(svc) == IF svc = "Jira" THEN "JIRA_USERNAME" ELSE "CONFLUENCE_USERNAME"
TokenVar(svc) == IF svc = "Jira" THEN "JIRA_API_TOKEN" ELSE "CONFLUENCE_API_TOKEN"
PatVar(svc) == IF svc = "Jira" THEN "JIRA_PERSONAL_TOKEN" ELSE "CONFLUENCE_PERSONAL_TOKEN"
Usable(svc) == IF svc = "Jira" THEN services.jira ELSE services.confluence

AllFiveOAuth ==
    /\ Present("ATLASSIAN_OAUTH_CLIENT_ID") /\ Present("ATLASSIAN_OAUTH_CLIENT_SECRET")
    /\ Present("ATLASSIAN_OAUTH_REDIRECT_URI") /\ Present("ATLASSIAN_OAUTH_SCOPE")
    /\ Present("ATLASSIAN_OAUTH_CLOUD_ID")

ProvidedToken ==
    Present("ATLASSIAN_OAUTH_ACCESS_TOKEN") /\ Present("ATLASSIAN_OAUTH_CLOUD_ID")

CloudShaped(svc) == env[UrlVar(svc)] = Str(<<"acme", "atlassian", "net">>)

BasicPair(svc) == Present(UserVar(svc)) /\ Present(TokenVar(svc))

\* The raw flag values that are "true", "1" or "yes" in some letter case.
FlagTruthy ==
    /\ env["ATLASSIAN_OAUTH_ENABLE"].set
    /\ env["ATLASSIAN_OAUTH_ENABLE"].str \in
         {<<"t","r","u","e">>, <<"T","r","u","E">>, <<"1">>, <<"Y","e","s">>}

\* C2: with a base URL and either all five OAuth client fields or the access
\* token with the cloud id, Jira / Confluence is usable whatever the basic and
\* PAT credentials and the deployment kind are, and the branch taken is the
\* OAuth one (client credentials first, then the provided token), never a
\* basic / PAT branch.
C2_OAuthTakesPrecedence ==
    Resolved => \A svc \in Tracked :
        (Present(UrlVar(svc)) /\ (AllFiveOAuth \/ ProvidedToken)) =>
            /\ Usable(svc)
            /\ Logged(IF AllFiveOAuth THEN MsgOAuthClient(svc) ELSE MsgOAuthToken(svc))
            /\ ~Logged(MsgCloudBasic(svc))
            /\ ~Logged(MsgServer(svc))

\* C2 witness: a server-shaped Jira URL, only the access token and the cloud id
\* of the OAuth fields, no username, API token or PAT; Jira is usable.
C2_Witness ==
    /\ Resolved
    /\ Present("JIRA_URL") /\ ~CloudShaped("Jira")
    /\ ProvidedToken /\ ~AllFiveOAuth
    /\ ~Present("JIRA_USERNAME") /\ ~Present("JIRA_API_TOKEN") /\ ~Present("JIRA_PERSONAL_TOKEN")
    /\ services.jira

\* C3: with a base URL and no OAuth branch matching, a cloud URL is usable iff
\* username and API token are both present; a server / data-center URL is
\* usable iff a PAT is present or username and API token are both present.
C3_BasicAndPat ==
    Resolved => \A svc \in Tracked :
        (Present(UrlVar(svc)) /\ ~AllFiveOAuth /\ ~ProvidedToken) =>
            IF CloudShaped(svc)
            THEN Usable(svc) <=> BasicPair(svc)
            ELSE Usable(svc) <=> (Present(PatVar(svc)) \/ BasicPair(svc))

\* C3 witness: a cloud-shaped Confluence URL with only a PAT is not usable.
C3_Witness ==
    /\ Resolved
    /\ Present("CONFLUENCE_URL") /\ CloudShaped("Confluence")
    /\ ~AllFiveOAuth /\ ~ProvidedToken
    /\ Present("CONFLUENCE_PERSONAL_TOKEN") /\ ~Present("CONFLUENCE_USERNAME")
    /\ ~services.confluence

\* C4: without a base URL, Jira / Confluence is usable iff the lower-cased
\* ATLASSIAN_OAUTH_ENABLE is "true", "1" or "yes"; with a base URL the
\* header-provided mode is never selected, and a base URL without matching
\* credentials is unusable even when the flag is truthy.
C4_NoUrlNeedsFlag ==
    Resolved => \A svc \in Tracked :
        /\ ~Present(UrlVar(svc)) => (Usable(svc) <=> FlagTruthy)
        /\ Present(UrlVar(svc)) => ~Logged(MsgOAuthHeader(svc))
        /\ (/\ Present(UrlVar(svc)) /\ ~AllFiveOAuth /\ ~ProvidedToken
            /\ ~BasicPair(svc) /\ ~Present(PatVar(svc))) => ~Usable(svc)

\* C4 witness: Jira has a base URL, no credentials of any kind, and the flag
\* is truthy; Jira is unusable while Confluence, without a URL, is usable.
C4_Witness ==
    /\ Resolved
    /\ Present("JIRA_URL") /\ ~AllFiveOAuth /\ ~ProvidedToken
    /\ ~BasicPair("Jira") /\ ~Present("JIRA_PERSONAL_TOKEN")
    /\ FlagTruthy /\ ~services.jira
    /\ ~Present("CONFLUENCE_URL") /\ Present("CONFLUENCE_USERNAME")
    /\ services.confluence

\* C5 as stated: for all three services, without a base URL the service is
\* usable iff the flag is truthy.
C5_AsStated ==
    Resolved =>
        /\ \A svc \in Tracked : ~Present(UrlVar(svc)) => (Usable(svc) <=> FlagTruthy)
        /\ ~Present("ZEPHYR_BASE_URL") => (services.zephyr <=> FlagTruthy)

\* C5 amended: for Jira and Confluence, without a base URL the service is
\* usable with the header-provided mode iff the flag is "true", "1" or "yes"
\* in any letter case; the test-management service without a base URL is
\* never usable, whatever the flag.
C5_HeaderModeTrackedOnly ==
    Resolved =>
        /\ \A svc \in Tracked : ~Present(UrlVar(svc)) =>
              /\ FlagTruthy => (Usable(svc) /\ TimesLogged(MsgOAuthHeader(svc)) = 1)
              /\ ~FlagTruthy => (~Usable(svc) /\ ~Logged(MsgOAuthHeader(svc)))
        /\ ~Present("ZEPHYR_BASE_URL") => ~services.zephyr

\* C5 witness: the flag is "TruE", no service has a base URL, the Zephyr token
\* is set: Jira and Confluence are usable, Zephyr is not.
C5_Witness ==
    /\ Resolved
    /\ env["ATLASSIAN_OAUTH_ENABLE"] = Str(<<"T","r","u","E">>)
    /\ ~Present("JIRA_URL") /\ ~Present("CONFLUENCE_URL") /\ ~Present("ZEPHYR_BASE_URL")
    /\ Present("ZEPHYR_API_TOKEN")
    /\ services.jira /\ services.confluence /\ ~services.zephyr

\* C6: Zephyr is usable iff ZEPHYR_API_TOKEN and ZEPHYR_BASE_URL are both
\* present, whatever else is configured; the "missing URL" warning is logged
\* iff only the token is present, the "missing token" warning iff only the URL
\* is present, and so never both and never when both or neither are present.
C6_ZephyrResolution ==
    Resolved =>
        /\ services.zephyr <=> (Present("ZEPHYR_API_TOKEN") /\ Present("ZEPHYR_BASE_URL"))
        /\ Logged(MsgZephyrMissingUrl) <=>
              (Present("ZEPHYR_API_TOKEN") /\ ~Present("ZEPHYR_BASE_URL"))
        /\ Logged(MsgZephyrMissingToken) <=>
              (Present("ZEPHYR_BASE_URL") /\ ~Present("ZEPHYR_API_TOKEN"))
        /\ ~(Logged(MsgZephyrMissingUrl) /\ Logged(MsgZephyrMissingToken))

\* C6 witness: only the Zephyr URL is present, while Jira is fully configured
\* and the flag is truthy; the "missing token" state is reached.
C6_Witness ==
    /\ Resolved
    /\ Present("ZEPHYR_BASE_URL") /\ ~Present("ZEPHYR_API_TOKEN")
    /\ FlagTruthy /\ services.jira
    /\ ~services.zephyr
    /\ Logged(MsgZephyrMissingToken) /\ ~Logged(MsgZephyrMissingUrl)

\* The modes of a service, as the line that announces each.
ModeLines(svc) ==
    IF svc = "Zephyr" THEN {MsgZephyrBearer, MsgZephyrNotConfigured}
    ELSE {MsgOAuthClient(svc), MsgOAuthToken(svc), MsgCloudBasic(svc),
          MsgServer(svc), MsgOAuthHeader(svc), MsgNotConfigured(svc)}

UnconfiguredLine(svc) ==
    IF svc = "Zephyr" THEN MsgZephyrNotConfigured ELSE MsgNotConfigured(svc)

\* The first mode, in the fixed order, whose condition holds.
FirstMatch(svc) ==
    IF Present(UrlVar(svc)) THEN
        IF AllFiveOAuth THEN MsgOAuthClient(svc)
        ELSE IF ProvidedToken THEN MsgOAuthToken(svc)
        ELSE IF CloudShaped(svc) /\ BasicPair(svc) THEN MsgCloudBasic(svc)
        ELSE IF ~CloudShaped(svc) /\ (Present(PatVar(svc)) \/ BasicPair(svc)) THEN MsgServer(svc)
        ELSE MsgNotConfigured(svc)
    ELSE IF FlagTruthy THEN MsgOAuthHeader(svc)
    ELSE MsgNotConfigured(svc)

UsableAny(svc) == IF svc = "Zephyr" THEN services.zephyr ELSE Usable(svc)

\* C7: a resolution run announces exactly one mode per service, once; for
\* Jira and Confluence it is the first of client-credentials OAuth, provided
\* token OAuth, cloud basic, server PAT / basic, header-provided OAuth,
\* unconfigured whose condition holds; and a service is usable iff its mode is
\* not unconfigured.
C7_ExactlyOneMode ==
    Resolved => \A svc \in Tracked \cup {"Zephyr"} :
        /\ \E m \in ModeLines(svc) :
              /\ TimesLogged(m) = 1
              /\ \A o \in ModeLines(svc) \ {m} : ~Logged(o)
        /\ UsableAny(svc) <=> ~Logged(UnconfiguredLine(svc))
        /\ svc \in Tracked => Logged(FirstMatch(svc))

\* C7 witness: every OAuth field, the basic pair and the PAT are present for
\* a cloud Jira URL and the flag is truthy: only the client-credentials mode
\* is announced for Jira; Zephyr is unconfigured.
C7_Witness ==
    /\ Resolved
    /\ Present("JIRA_URL") /\ CloudShaped("Jira")
    /\ AllFiveOAuth /\ ProvidedToken /\ BasicPair("Jira") /\ Present("JIRA_PERSONAL_TOKEN")
    /\ FlagTruthy
    /\ Logged(MsgOAuthClient("Jira")) /\ ~Logged(MsgOAuthToken("Jira"))
    /\ ~services.zephyr /\ Logged(MsgZephyrNotConfigured)

----------------------------------------------------------------------------
(* The write-access gate and the life of an invocation.                    *)

\* utils/decorators.py check_write_access: what the wrapper returns instead
\* of calling the tool when the process is read-only.
check_write_access_denial(tool) ==
    Returned([success |-> FALSE, error |-> <<"Cannot ", tool, " in read-only mode.">>], 0,
             <<LogAt(LOG_WARNING, <<"Attempted to call tool '", tool, "' in read-only mode.">>)>>)

\* An environment in which only Zephyr is configured.
ZephyrEnv ==
    [v \in {"CONFLUENCE_URL", "CONFLUENCE_USERNAME", "CONFLUENCE_API_TOKEN",
            "CONFLUENCE_PERSONAL_TOKEN", "JIRA_URL", "JIRA_USERNAME", "JIRA_API_TOKEN",
            "JIRA_PERSONAL_TOKEN", "ATLASSIAN_OAUTH_CLIENT_ID",
            "ATLASSIAN_OAUTH_CLIENT_SECRET", "ATLASSIAN_OAUTH_REDIRECT_URI",
            "ATLASSIAN_OAUTH_SCOPE", "ATLASSIAN_OAUTH_CLOUD_ID",
            "ATLASSIAN_OAUTH_ACCESS_TOKEN", "ATLASSIAN_OAUTH_ENABLE",
            "ZEPHYR_API_TOKEN", "ZEPHYR_BASE_URL"} |->
        IF v \in {"ZEPHYR_API_TOKEN", "ZEPHYR_BASE_URL"} THEN Str(<<"x">>) ELSE None]

\* The body reaches its backend call when the fetcher does fo.
ReachesBackend(tool, a, fo) == Body(tool, a, fo, Returns(FALSE, 0)).calls > 0

\* The number of step requests add_multiple_test_steps submits.
Requested(a) == Len(a.data.items)

Init ==
    /\ env = ZephyrEnv
    /\ services = NotResolved
    /\ envlog = <<>>
    /\ read_only \in BOOLEAN
    /\ inv = [i \in Slots |-> IdleSlot]

\* A write tool is called while the process is read-only: the wrapper
\* returns its denial and the tool is not called.
InvokeDenied(i, tool, a) ==
    /\ inv[i].pc = "idle"
    /\ tool \in WriteTools /\ read_only
    /\ inv' = [inv EXCEPT ![i] =
                 Running("done", tool, a, 0, <<>>, <<check_write_access_denial(tool)>>)]
    /\ UNCHANGED <<env, services, envlog, read_only>>

\* A tool is called and runs up to `await get_zephyr_fetcher(ctx)`.
Invoke(i, tool, a) ==
    /\ inv[i].pc = "idle"
    /\ ~(tool \in WriteTools /\ read_only)
    /\ inv' = [inv EXCEPT ![i] = Running("await_fetcher", tool, a, 0, <<>>, <<>>)]
    /\ UNCHANGED <<env, services, envlog, read_only>>

\* The fetcher is done and the body runs to its end: the tools whose
\* backend call is not awaited, and every tool that does not reach the call.
FetcherDone(i) ==
    /\ inv[i].pc = "await_fetcher"
    /\ LET tool == inv[i].tool
           a == inv[i].args IN
       \E fo \in FetcherOutcomes :
        /\ tool \in AwaitingTools => ~ReachesBackend(tool, a, fo)
        /\ \E bo \in (IF ReachesBackend(tool, a, fo)
                      THEN BackendOutcomes(tool, a.key, Requested(a))
                      ELSE {Returns(FALSE, 0)}) :
            LET r == Body(tool, a, fo, bo) IN
            inv' = [inv EXCEPT ![i] =
                      Running("done", tool, a, r.calls,
                              IF r.calls > 0 THEN <<bo>> ELSE <<>>, <<r>>)]
    /\ UNCHANGED <<env, services, envlog, read_only>>

\* The fetcher is done and the body runs up to its awaited backend call.
FetcherDoneAwaitBackend(i) ==
    /\ inv[i].pc = "await_fetcher"
    /\ inv[i].tool \in AwaitingTools
    /\ \E fo \in FetcherOutcomes : ReachesBackend(inv[i].tool, inv[i].args, fo)
    /\ inv' = [inv EXCEPT ![i] =
                 Running("await_backend", inv[i].tool, inv[i].args, 1, <<>>, <<>>)]
    /\ UNCHANGED <<env, services, envlog, read_only>>

\* Mutant of BackendDone: the arguments are kept in one place that every
\* invocation writes, so the body resumes with those of the latest slot in use.
BackendDone_SharedArgs(i) ==
    /\ inv[i].pc = "await_backend"
    /\ LET tool == inv[i].tool
           latest == CHOOSE j \in DOMAIN inv :
                        /\ inv[j].pc # "idle"
                        /\ \A k \in DOMAIN inv : inv[k].pc # "idle" => k <= j
           a == inv[latest].args IN
       \E bo \in BackendOutcomes(tool, inv[i].args.key, Requested(inv[i].args)) :
            LET r == Body(tool, a, Returns(FALSE, 0), bo) IN
            inv' = [inv EXCEPT ![i] = Running("done", tool, inv[i].args, r.calls, <<bo>>, <<r>>)]
    /\ UNCHANGED <<env, services, envlog, read_only>>

\* The awaited backend call is done and the body runs to its end.
BackendDone(i) ==
    /\ inv[i].pc = "await_backend"
    /\ LET tool == inv[i].tool
           a == inv[i].args IN
       \E bo \in BackendOutcomes(tool, a.key, Requested(a)) :
            LET r == Body(tool, a, Returns(FALSE, 0), bo) IN
            inv' = [inv EXCEPT ![i] = Running("done", tool, a, r.calls, <<bo>>, <<r>>)]
    /\ UNCHANGED <<env, services, envlog, read_only>>

\* The result is handed to the caller and the slot is free again.
Return(i) ==
    /\ inv[i].pc = "done"
    /\ inv' = [inv EXCEPT ![i] = IdleSlot]
    /\ UNCHANGED <<env, services, envlog, read_only>>

Next ==
    \E i \in Slots :
        \/ \E tool \in Tools : \E a \in ArgsFor(tool) : InvokeDenied(i, tool, a)
        \/ \E tool \in Tools : \E a \in ArgsFor(tool) : Invoke(i, tool, a)
        \/ FetcherDone(i)
        \/ FetcherDoneAwaitBackend(i)
        \/ BackendDone(i)
        \/ Return(i)

Spec == Init /\ [][Next]_vars

----------------------------------------------------------------------------
(* Properties of the tool set.                                             *)

Done(i) == inv[i].pc = "done"
Out(i) == inv[i].out[1]
ReturnedEnvelope(i) == Done(i) /\ ~Out(i).raised
Resp(i) == Out(i).response

\* The eight mutating tools, as the tool set's documentation lists them.
MutatingTools ==
    {"create_testcase", "update_testcase", "delete_testcase", "create_testplan",
     "create_testrun", "create_testresult", "add_test_step", "add_multiple_test_steps"}

\* C1: while the process is read-only, an invocation of a mutating tool is
\* never waiting on the client or the backend, has made no backend call, and
\* its result is success = false with the read-only error.
C1_ReadOnlyGate ==
    \A i \in Slots :
        (read_only /\ inv[i].pc # "idle" /\ inv[i].tool \in MutatingTools) =>
            /\ ReturnedEnvelope(i)
            /\ inv[i].calls = 0 /\ Out(i).calls = 0 /\ inv[i].backend = <<>>
            /\ Resp(i).success = FALSE
            /\ Contains(Resp(i).error, " in read-only mode.")

\* C1 witness: add_multiple_test_steps was called with an array of two
\* well-formed steps while read-only, and was denied.
C1_Witness ==
    \E i \in Slots :
        /\ read_only /\ Done(i)
        /\ inv[i].tool = "add_multiple_test_steps"
        /\ inv[i].args.data = Json("array", <<StepObject, StepObject>>)
        /\ Resp(i).success = FALSE /\ inv[i].calls = 0

PayloadFields(r) == DOMAIN r \ {"success", "error", "issue_id", "project_id"}

ByKeyTools ==
    {"get_testcase", "update_testcase", "delete_testcase", "get_testplan",
     "get_testrun", "get_testcase_latest_result", "get_testrun_results",
     "get_test_steps"}

\* The backend reported that the entity does not exist.
BackendSaidNotFound(i) ==
    /\ inv[i].backend # <<>>
    /\ inv[i].backend[1].kind = "raise"
    /\ inv[i].backend[1].fault.kind = "MCPAtlassianNotFoundError"

\* The error text says not-found.
SaysNotFound(text) ==
    \E w \in {"Test case not found: ", "Test plan not found: ", "Test run not found: ",
              "not found"} : Contains(lower_words(text), w)

\* C10 as stated: when the backend reports not-found to a tool that works by
\* key, the result is success = false, its error says not-found and contains
\* the key argument, whatever the text of the backend's fault.
C10_AsStated ==
    \A i \in Slots :
        (Done(i) /\ inv[i].tool \in ByKeyTools /\ BackendSaidNotFound(i)) =>
            /\ ReturnedEnvelope(i)
            /\ Resp(i).success = FALSE
            /\ SaysNotFound(Resp(i).error)
            /\ Contains(Resp(i).error, inv[i].args.key)

\* The fault the backend raised to invocation i, if it raised one.
BackendRaised(i) ==
    /\ inv[i].backend # <<>>
    /\ inv[i].backend[1].kind = "raise"

BackendFault(i) == inv[i].backend[1].fault

\* The backend raised the authentication/permission fault.
BackendDeniedAccess(i) ==
    BackendRaised(i) /\ BackendFault(i).kind = "MCPAtlassianAuthenticationError"

\* The prefix that marks an access denial.
AuthPrefix == "Authentication/Permission Error: "

\* text.startswith(prefix)
BeginsWith(text, prefix) == text # <<>> /\ text[1] = prefix

\* What the same invocation returns when the backend raises a plain
\* Exception carrying the message msg.
GenericOutcome(i, msg) ==
    Body(inv[i].tool, inv[i].args, Returns(FALSE, 0), Raises(Fault("Exception", msg)))

\* C11 as stated: when the backend raises the authentication/permission
\* fault, the error of the returned result begins with
\* "Authentication/Permission Error:", and the result differs from the one
\* returned for a plain Exception with the same message.
C11_AsStated ==
    \A i \in Slots :
        (Done(i) /\ BackendDeniedAccess(i)) =>
            /\ ReturnedEnvelope(i)
            /\ Resp(i).success = FALSE
            /\ BeginsWith(Resp(i).error, AuthPrefix)
            /\ Resp(i) # GenericOutcome(i, str(BackendFault(i))).response

\* The backend raised a fault that is neither not-found nor the
\* authentication/permission fault.
BackendFailedUnexpectedly(i) ==
    /\ BackendRaised(i)
    /\ BackendFault(i).kind \notin {"MCPAtlassianNotFoundError", "MCPAtlassianAuthenticationError"}
    /\ ~Contains(lower_words(str(BackendFault(i))), "not found")

\* Some part of the fault's own message is in the text.
Leaks(text, f) == \E k \in 1..Len(str(f)) : Contains(text, str(f)[k])

\* The fault is in the operational log.
InLog(i, f) == \E k \in 1..Len(Out(i).log) : Out(i).log[k].exc_info = <<f>>

\* C12 as stated: after an unexpected backend fault the result is
\* success = false, no part of the fault's message is in the returned error,
\* and the fault is recorded in the operational log.
C12_AsStated ==
    \A i \in Slots :
        (Done(i) /\ BackendFailedUnexpectedly(i)) =>
            /\ ReturnedEnvelope(i)
            /\ Resp(i).success = FALSE
            /\ ~Leaks(Resp(i).error, BackendFault(i))
            /\ InLog(i, BackendFault(i))

\* The severities at which invocation i wrote to the operational log.
LogLevels(i) == {Out(i).log[k].level : k \in 1..Len(Out(i).log)}

\* The severities at which the same invocation logs a plain Exception raised
\* by the backend.
UnexpectedLevels(i) ==
    LET log == GenericOutcome(i, OtherText).log IN {log[k].level : k \in 1..Len(log)}

\* The backend raised not-found or the authentication/permission fault.
BackendFailedAsExpected(i) ==
    /\ BackendRaised(i)
    /\ BackendFault(i).kind \in {"MCPAtlassianNotFoundError", "MCPAtlassianAuthenticationError"}

\* C17 as stated: whatever a tool logs for a not-found or an
\* authentication/permission fault is at a severity strictly below every
\* severity it logs for an unexpected fault, and the three test-step tools
\* never log an authentication/permission fault at error severity.
C17_AsStated ==
    \A i \in Slots :
        (Done(i) /\ BackendFailedAsExpected(i)) =>
            /\ \A l \in LogLevels(i) : \A u \in UnexpectedLevels(i) : l < u
            /\ (inv[i].tool \in AwaitingTools /\ BackendDeniedAccess(i)) =>
                  LOG_ERROR \notin LogLevels(i)

\* An element of the steps array that is an object with a step description.
WellFormed(elem) == elem.type = "dict" /\ elem.has_step /\ elem.step # <<>>

\* The steps argument is an array and each of its elements is well-formed.
AllWellFormed(a) ==
    a.data.json = "array" /\ \A k \in 1..Len(a.data.items) : WellFormed(a.data.items[k])

\* The steps argument is an array with an element that is not well-formed.
HasInvalidElement(a) ==
    a.data.json = "array" /\ \E k \in 1..Len(a.data.items) : ~WellFormed(a.data.items[k])

\* The position, counted from 0, of the first element that is not well-formed.
LeastInvalidIndex(a) ==
    (CHOOSE k \in 1..Len(a.data.items) :
        /\ ~WellFormed(a.data.items[k])
        /\ \A j \in 1..(k - 1) : WellFormed(a.data.items[j])) - 1

\* The invocation ended before its input was looked at: the process is
\* read-only, or the client could not be obtained.
EndedBeforeInput(i) ==
    \/ Out(i) = check_write_access_denial(inv[i].tool)
    \/ \E f \in FetcherFaults : Out(i) = add_multiple_test_steps_except(inv[i].args, f, 0)

C14_PartialAcceptanceSucceeds ==
    \A i \in Slots :
        inv[i].tool = "add_multiple_test_steps" =>
            /\ inv[i].pc = "await_backend" =>
                  AllWellFormed(inv[i].args) /\ inv[i].calls = 1 /\ ~read_only
            /\ (Done(i) /\ inv[i].backend # <<>> /\ inv[i].backend[1].kind = "return"
                    /\ ~inv[i].backend[1].none) =>
                  /\ AllWellFormed(inv[i].args)
                  /\ inv[i].backend[1].n \in 0..Len(inv[i].args.data.items)
                  /\ ReturnedEnvelope(i)
                  /\ Resp(i).success = TRUE
                  /\ "error" \notin DOMAIN Resp(i)
                  /\ Resp(i).total_requested = Len(inv[i].args.data.items)
                  /\ Resp(i).total_created = inv[i].backend[1].n
                  /\ Len(Resp(i).test_steps) = inv[i].backend[1].n
                  /\ inv[i].calls = 1 /\ Out(i).calls = 1

\* C14 witness: two well-formed steps were submitted and the backend
\* returned one created step.
C14_Witness ==
    \E i \in Slots :
        /\ Done(i) /\ inv[i].tool = "add_multiple_test_steps"
        /\ inv[i].args.data = Json("array", <<StepObject, StepObject>>)
        /\ inv[i].backend = <<Returns(FALSE, 1)>>
        /\ Resp(i).success = TRUE
        /\ Resp(i).total_requested = 2 /\ Resp(i).total_created = 1

\* C15: an invocation makes at most one backend call; while it waits on the
\* backend it has made exactly that one; once it has ended it takes no
\* further step of its own; and when the backend call raised, the invocation
\* ended after that single call with success = false and an error.
C15_SingleBackendCall ==
    \A i \in Slots :
        /\ inv[i].calls \in {0, 1}
        /\ inv[i].pc \in {"idle", "await_fetcher"} => inv[i].calls = 0
        /\ inv[i].pc = "await_backend" => inv[i].calls = 1 /\ inv[i].backend = <<>>
        /\ Done(i) =>
              /\ Out(i).calls = inv[i].calls
              /\ (inv[i].backend # <<>>) <=> (inv[i].calls = 1)
              /\ ~ENABLED (FetcherDone(i) \/ FetcherDoneAwaitBackend(i) \/ BackendDone(i))
        /\ (Done(i) /\ BackendRaised(i)) =>
              /\ inv[i].calls = 1
              /\ ReturnedEnvelope(i)
              /\ Resp(i).success = FALSE
              /\ "error" \in DOMAIN Resp(i)

\* C15 witness: delete_testcase ended after its backend call raised.
C15_Witness ==
    \E i \in Slots :
        /\ Done(i) /\ inv[i].tool = "delete_testcase"
        /\ inv[i].backend = <<Raises(Fault("Exception", OtherText))>>
        /\ inv[i].calls = 1
        /\ Resp(i).success = FALSE
        /\ Resp(i).error = <<"Failed to delete test case: ">> \o OtherText

----------------------------------------------------------------------------
(* Several invocations in flight at once.                                  *)

\* The number of invocations that may be in flight together.
MaxConcurrent == 2

ConcurrentSlots == 1..MaxConcurrent

\* A tool that awaits its backend call and is write-gated, and one that
\* does neither.
ConcurrentTools == {"add_test_step", "search_testcases"}

InitConcurrent ==
    /\ env = ZephyrEnv
    /\ services = NotResolved
    /\ envlog = <<>>
    /\ read_only \in BOOLEAN
    /\ inv = [i \in ConcurrentSlots |-> IdleSlot]

NextConcurrent ==
    \E i \in ConcurrentSlots :
        \/ \E tool \in ConcurrentTools : \E a \in ArgsFor(tool) : InvokeDenied(i, tool, a)
        \/ \E tool \in ConcurrentTools : \E a \in ArgsFor(tool) : Invoke(i, tool, a)
        \/ FetcherDone(i)
        \/ FetcherDoneAwaitBackend(i)
        \/ BackendDone(i)
        \/ Return(i)

SpecConcurrent == InitConcurrent /\ [][NextConcurrent]_vars

\* What an invocation returns when it is the only one: the denial of the
\* write gate, or what its body makes of the outcomes fo and bo.
RunAlone(tool, a, ro, fo, bo) ==
    IF tool \in WriteTools /\ ro THEN check_write_access_denial(tool)
    ELSE Body(tool, a, fo, bo)

\* The results invocation i can have when it runs alone with its arguments
\* and the backend outcome it got.
AloneOutcomes(i) ==
    {RunAlone(inv[i].tool, inv[i].args, read_only, fo, bo) :
        fo \in FetcherOutcomes,
        bo \in (IF inv[i].backend # <<>> THEN {inv[i].backend[1]}
                ELSE BackendOutcomes(inv[i].tool, inv[i].args.key, Requested(inv[i].args)))}

\* An ended invocation has the result, the number of backend calls and the
\* log records it has when it runs alone.
ResultAsAlone ==
    \A i \in ConcurrentSlots :
        Done(i) =>
            /\ Out(i) \in AloneOutcomes(i)
            /\ inv[i].backend # <<>> =>
                  Out(i) = Body(inv[i].tool, inv[i].args, Returns(FALSE, 0), inv[i].backend[1])

\* A step changes the record of one invocation at most, and leaves the
\* write-access flag, the availability map and the environment as they were.
StepIsLocal ==
    /\ read_only' = read_only
    /\ services' = services
    /\ env' = env /\ envlog' = envlog
    /\ \A i \in ConcurrentSlots :
          inv'[i] # inv[i] => \A j \in ConcurrentSlots \ {i} : inv'[j] = inv[j]
    /\ \A i \in ConcurrentSlots :
          (inv[i].pc # "idle" /\ inv'[i].pc # "idle") =>
              inv'[i].tool = inv[i].tool /\ inv'[i].args = inv[i].args

====
